---- MODULE Spec2Model ----
(***************************************************************************)
(* TaskFlow: the task store behind the Next.js API routes                  *)
(*   /api/tasks, /api/tasks/[id], /api/tasks/[id]/dependencies             *)
(* and the graph algorithms that guard it (cycle check, completion gate).  *)
(* The store is the SQLite database reached through Prisma: the "tasks"    *)
(* table and the implicit many-to-many table "_TaskDependencies".          *)
(***************************************************************************)
EXTENDS Integers, Sequences, FiniteSets, TLC

\* ------------------------------------------------------------------ bounds
\* Number of task ids the store ever allocates (ids are never reused).
MaxTasks == 3
\* Longest dependency list a request carries.
MaxDeps == 2

Ids == 1..MaxTasks

\* ------------------------------------------------------------------ values
Undefined == "undefined"
\* the title a client gives the task it creates: one title per task, none used twice
TaskTitles == <<"Research topic", "Write report", "Make slides", "Collect data", "Analyze data">>
\* status strings a client may send (frontend TaskStatus, plus one string the
\* frontend type does not contain) and `undefined` for an absent field
StatusInputs == {Undefined, "todo", "in-progress", "done", "in_progress"}

\* an absent `dependencies` field is <<>>, a present list l is <<l>>
NoDeps == <<>>
SomeDeps(l) == <<l>>

RECURSIVE SeqsUpTo(_)
SeqsUpTo(n) ==
  IF n = 0 THEN {<<>>}
  ELSE LET shorter == SeqsUpTo(n - 1)
       IN shorter \cup {Append(s, i) : s \in {t \in shorter : Len(t) = n - 1}, i \in Ids}

DepLists == SeqsUpTo(MaxDeps)
DepInputs == {NoDeps} \cup {SomeDeps(l) : l \in DepLists}
\* the dependency lists sent with a task update: absent, empty, or one id
PutDepInputs == {NoDeps} \cup {SomeDeps(l) : l \in SeqsUpTo(1)}

\* the orders in which a query without ORDER BY returns the related rows:
\* by ascending or by descending id
RowOrders == {[i \in 1..MaxTasks |-> i], [i \in 1..MaxTasks |-> MaxTasks + 1 - i]}

Range(s) == {s[i] : i \in DOMAIN s}

\* ------------------------------------------------------------------ state
VARIABLES
  tasks,             \* the "tasks" table: id -> [title, status, tags]
  TaskDependencies,  \* the "_TaskDependencies" table: <<task, dependency>>
  nextId,            \* the next fresh id
  req,               \* the request being answered, NoReq when the server is idle
  resp,              \* the response to it
  calls              \* the POST /api/tasks/[id]/dependencies invocations in progress

vars == <<tasks, TaskDependencies, nextId, req, resp, calls>>
store == <<tasks, TaskDependencies>>

\* a request: method and route, the [id] path parameter and the JSON body
Request(op, id, title, status, dependencies) ==
  [op |-> op, id |-> id, title |-> title, status |-> status, dependencies |-> dependencies]
NoReq == Request("none", 0, Undefined, Undefined, NoDeps)
NoResp == [op |-> "none", status |-> 0, error |-> "", incompleteDependencies |-> <<>>]

\* NextResponse.json(body, {status}) answering the request `op`
Json(op, code) ==
  [op |-> op, status |-> code, error |-> "", incompleteDependencies |-> <<>>]
JsonError(op, code, msg) ==
  [op |-> op, status |-> code, error |-> msg, incompleteDependencies |-> <<>>]

\* task.dependencies of the row `id`
dependenciesOf(id) == {e[2] : e \in {x \in TaskDependencies : x[1] = id}}
\* ... as the list the query returns, in row order `ord`
dependencyRows(id, ord) == SelectSeq(ord, LAMBDA d : d \in dependenciesOf(id))

findUnique(id) == id \in DOMAIN tasks

\* ------------------------------------------------------------------ status
\* convertStatusToEnum with the 'done' result pasted into the 'in-progress' case
convertStatusToEnum_pastedCase(status) ==
  CASE status = "todo" -> "TODO"
    [] status = "in-progress" -> "DONE"
    [] status = "done" -> "DONE"
    [] OTHER -> "TODO"

\* convertStatusToEnum: frontend status string -> stored enum
convertStatusToEnum(status) ==
  CASE status = "todo" -> "TODO"
    [] status = "in-progress" -> "IN_PROGRESS"
    [] status = "done" -> "DONE"
    [] OTHER -> "TODO"

\* ------------------------------------------------ cycle check, dependencies route
\* The result of a traversal: the verdict and the two sets it mutates.
Dfs(ret, visited, recursionStack) ==
  [ret |-> ret, visited |-> visited, recursionStack |-> recursionStack]

RECURSIVE hasCircularDependency(_, _, _, _, _)
RECURSIVE hasCircularDependencyLoop(_, _, _, _, _, _)

\* hasCircularDependency taking a task it has visited for a cycle
hasCircularDependency_visitedIsCycle(taskId, visited, recursionStack, originalTaskId, ord) ==
  IF taskId \in recursionStack \/ taskId \in visited
  THEN Dfs(TRUE, visited, recursionStack)
  ELSE LET v == visited \cup {taskId}
           r == recursionStack \cup {taskId}
       IN IF ~findUnique(taskId) THEN Dfs(FALSE, v, r \ {taskId})
          ELSE hasCircularDependencyLoop(taskId, dependencyRows(taskId, ord), v, r,
                                         originalTaskId, ord)

\* route.ts hasCircularDependency: the body up to the loop over task.dependencies
hasCircularDependency(taskId, visited, recursionStack, originalTaskId, ord) ==
  IF taskId \in recursionStack THEN Dfs(TRUE, visited, recursionStack)
  ELSE IF taskId \in visited THEN Dfs(FALSE, visited, recursionStack)
  ELSE LET v == visited \cup {taskId}
           r == recursionStack \cup {taskId}
       IN IF ~findUnique(taskId) THEN Dfs(FALSE, v, r \ {taskId})
          ELSE hasCircularDependencyLoop(taskId, dependencyRows(taskId, ord), v, r,
                                         originalTaskId, ord)

\* route.ts hasCircularDependency: `for (const dep of task.dependencies)` and the tail
hasCircularDependencyLoop(taskId, rows, visited, recursionStack, originalTaskId, ord) ==
  IF rows = <<>> THEN Dfs(FALSE, visited, recursionStack \ {taskId})
  ELSE IF Head(rows) = originalTaskId THEN Dfs(TRUE, visited, recursionStack \ {taskId})
  ELSE LET sub == hasCircularDependency(Head(rows), visited, recursionStack,
                                        originalTaskId, ord)
       IN IF sub.ret THEN sub
          ELSE hasCircularDependencyLoop(taskId, Tail(rows), sub.visited,
                                         sub.recursionStack, originalTaskId, ord)

RECURSIVE checkCircularDependenciesLoop(_, _, _, _, _)
\* route.ts checkCircularDependencies: `for (const depId of newDependencies)`
checkCircularDependenciesLoop(taskId, newDependencies, visited, recursionStack, ord) ==
  IF newDependencies = <<>> THEN FALSE
  ELSE LET sub == hasCircularDependency(Head(newDependencies), visited, recursionStack,
                                        taskId, ord)
       IN IF sub.ret THEN TRUE
          ELSE checkCircularDependenciesLoop(taskId, Tail(newDependencies), sub.visited,
                                             sub.recursionStack, ord)

\* route.ts checkCircularDependencies
checkCircularDependencies(taskId, newDependencies, ord) ==
  checkCircularDependenciesLoop(taskId, newDependencies, {}, {}, ord)

\* --------------------------------------------------- cycle check, task route
RECURSIVE hasCircularDependencyTask(_, _, _, _)
RECURSIVE hasCircularDependencyTaskLoop(_, _, _, _)

\* [id]/route.ts hasCircularDependency(taskId, visited, targetIds)
hasCircularDependencyTask(taskId, visited, targetIds, ord) ==
  IF taskId \in visited THEN [ret |-> FALSE, visited |-> visited]
  ELSE IF taskId \in Range(targetIds) THEN [ret |-> TRUE, visited |-> visited]
  ELSE LET v == visited \cup {taskId}
       IN IF ~findUnique(taskId) THEN [ret |-> FALSE, visited |-> v]
          ELSE hasCircularDependencyTaskLoop(dependencyRows(taskId, ord), v, targetIds, ord)

\* [id]/route.ts hasCircularDependency: `for (const dep of task.dependencies)`
hasCircularDependencyTaskLoop(rows, visited, targetIds, ord) ==
  IF rows = <<>> THEN [ret |-> FALSE, visited |-> visited]
  ELSE LET sub == hasCircularDependencyTask(Head(rows), visited, targetIds, ord)
       IN IF sub.ret THEN sub
          ELSE hasCircularDependencyTaskLoop(Tail(rows), sub.visited, targetIds, ord)

RECURSIVE checkCircularDependenciesTask(_, _, _, _)
\* [id]/route.ts checkCircularDependencies: a fresh `visited` per depId; the
\* third argument is the part of dependencyIds still to be looked at
checkCircularDependenciesTask(taskId, dependencyIds, rest, ord) ==
  IF rest = <<>> THEN FALSE
  ELSE IF hasCircularDependencyTask(Head(rest), {}, <<taskId>> \o dependencyIds, ord).ret
       THEN TRUE
  ELSE checkCircularDependenciesTask(taskId, dependencyIds, Tail(rest), ord)

\* ------------------------------------------------------------------ Prisma
\* connect: [{id}...] on the dependencies relation fails when a record is missing
connectable(ids) == \A i \in Range(ids) : findUnique(i)
\* connect writing the relation from both sides
connect_bothSides(taskId, ids) ==
  {<<taskId, d>> : d \in Range(ids)} \cup {<<d, taskId>> : d \in Range(ids)}
\* rows added by connect (the unique index on (A, B) keeps one row per pair)
connect(taskId, ids) == {<<taskId, d>> : d \in Range(ids)}
\* rows removed by disconnect
disconnect(taskId, ids) == {<<taskId, d>> : d \in Range(ids)}
\* rows removed by `set: []`
rowsOfTask(taskId) == {e \in TaskDependencies : e[1] = taskId}

\* ------------------------------------- an invocation of POST .../dependencies
\* The two invocations the server may have in progress at once.
Handlers == {"first", "second"}

\* The locals of one invocation of POST (route.ts) between two awaited Prisma
\* calls: where it stands (pc), its taskId and dependencies, the part of
\* newDependencies the loop of checkCircularDependencies has not reached, the two
\* sets of the traversal,
\* the hasCircularDependency activations waiting in their for-loop (innermost
\* last, each with the rows of task.dependencies still to visit), the id whose
\* findUnique is awaited, and the response once sent.
Call(pc, taskId, dependencies, rest, visited, recursionStack, frames, cur, status) ==
  [pc |-> pc, taskId |-> taskId, dependencies |-> dependencies, rest |-> rest, visited |-> visited,
   recursionStack |-> recursionStack, frames |-> frames, cur |-> cur, status |-> status]
Idle == Call("idle", 0, <<>>, <<>>, {}, {}, <<>>, 0, 0)

Init ==
  /\ tasks = <<>>
  /\ TaskDependencies = {}
  /\ nextId = 1
  /\ req = NoReq
  /\ resp = NoResp
  /\ calls = [h \in Handlers |-> Idle]

\* ------------------------------------------------------------------ handlers
\* a row added to / removed from / changed in the "tasks" table
prismaCreate(id, row) == [i \in DOMAIN tasks \cup {id} |-> IF i = id THEN row ELSE tasks[i]]
prismaDelete(id) == [i \in DOMAIN tasks \ {id} |-> tasks[i]]
prismaUpdate(id, title, status, tags) ==
  [tasks EXCEPT ![id] = [title |-> IF title = Undefined THEN @.title ELSE title,
                         status |-> IF status = Undefined THEN @.status ELSE status,
                         tags |-> tags]]

\* `tags || []`, the list the handlers hand to JSON.stringify for the "tags" column
tagsOrEmpty(tags) == IF tags = Undefined THEN <<>> ELSE tags

\* POST /api/tasks connecting the listed tasks as dependents of the new task too
POST_Tasks_alsoDependents(title, tags, dependencies) ==
  /\ req = NoReq
  /\ UNCHANGED calls
  /\ req' = Request("POST /api/tasks", 0, title, Undefined, dependencies)
  /\ nextId <= MaxTasks
  /\ IF title = Undefined
     THEN /\ resp' = JsonError("POST /api/tasks", 400, "Title and due date are required")
          /\ UNCHANGED <<tasks, TaskDependencies, nextId>>
     ELSE LET ids == IF dependencies = NoDeps THEN <<>> ELSE dependencies[1]
          IN IF ~connectable(ids)
             THEN /\ resp' = JsonError("POST /api/tasks", 500, "Failed to create task")
                  /\ UNCHANGED <<tasks, TaskDependencies, nextId>>
             ELSE /\ tasks' = prismaCreate(nextId, [title |-> title, status |-> "TODO",
                                                      tags |-> tagsOrEmpty(tags)])
                  /\ TaskDependencies' = TaskDependencies \cup connect(nextId, ids)
                                            \cup {<<d, nextId>> : d \in Range(ids)}
                  /\ nextId' = nextId + 1
                  /\ resp' = Json("POST /api/tasks", 201)

\* POST /api/tasks: create a task, status defaulting to TODO, with no cycle check
POST_Tasks(title, tags, dependencies) ==
  /\ req = NoReq
  /\ UNCHANGED calls
  /\ req' = Request("POST /api/tasks", 0, title, Undefined, dependencies)
  /\ nextId <= MaxTasks
  /\ IF title = Undefined
     THEN /\ resp' = JsonError("POST /api/tasks", 400, "Title and due date are required")
          /\ UNCHANGED <<tasks, TaskDependencies, nextId>>
     ELSE LET ids == IF dependencies = NoDeps THEN <<>> ELSE dependencies[1]
          IN IF ~connectable(ids)
             THEN /\ resp' = JsonError("POST /api/tasks", 500, "Failed to create task")
                  /\ UNCHANGED <<tasks, TaskDependencies, nextId>>
             ELSE /\ tasks' = prismaCreate(nextId, [title |-> title, status |-> "TODO",
                                                      tags |-> tagsOrEmpty(tags)])
                  /\ TaskDependencies' = TaskDependencies \cup connect(nextId, ids)
                  /\ nextId' = nextId + 1
                  /\ resp' = Json("POST /api/tasks", 201)

\* the gate reading the inverse relation: existingTask.dependents
incompleteDependencies_dependents(id, ord) ==
  LET dependents == SelectSeq(ord, LAMBDA d : <<d, id>> \in TaskDependencies)
      blocking == SelectSeq(dependents, LAMBDA d : tasks[d].status # "DONE")
  IN [i \in 1..Len(blocking) |-> [id |-> blocking[i], title |-> tasks[blocking[i]].title]]

\* the gate counting only TODO as incomplete: dep.status === 'TODO'
incompleteDependencies_onlyTodo(id, ord) ==
  LET blocking == SelectSeq(dependencyRows(id, ord), LAMBDA d : tasks[d].status = "TODO")
  IN [i \in 1..Len(blocking) |-> [id |-> blocking[i], title |-> tasks[blocking[i]].title]]

\* the gate comparing with the frontend spelling: dep.status !== 'done'
incompleteDependencies_frontendStatus(id, ord) ==
  LET blocking == SelectSeq(dependencyRows(id, ord), LAMBDA d : tasks[d].status # "done")
  IN [i \in 1..Len(blocking) |-> [id |-> blocking[i], title |-> tasks[blocking[i]].title]]

\* the gate reporting the first incomplete dependency only: find instead of filter
incompleteDependencies_first(id, ord) ==
  LET blocking == SelectSeq(dependencyRows(id, ord), LAMBDA d : tasks[d].status # "DONE")
  IN [i \in 1..(IF Len(blocking) > 0 THEN 1 ELSE 0) |->
        [id |-> blocking[i], title |-> tasks[blocking[i]].title]]

\* PUT /api/tasks/[id]: existingTask.dependencies.filter(dep => dep.status !== 'DONE')
\* mapped to {id, title}
incompleteDependencies(id, ord) ==
  LET blocking == SelectSeq(dependencyRows(id, ord), LAMBDA d : tasks[d].status # "DONE")
  IN [i \in 1..Len(blocking) |-> [id |-> blocking[i], title |-> tasks[blocking[i]].title]]

\* PUT /api/tasks/[id]; the body carries no tags (moveTask sends the status
\* only, the task dialog the due date only)
PUT_Task(id, title, status, dependencies, ord) ==
  /\ req = NoReq
  /\ UNCHANGED calls
  /\ req' = Request("PUT /api/tasks/[id]", id, title, status, dependencies)
  /\ UNCHANGED nextId
  /\ IF ~findUnique(id)
     THEN /\ resp' = JsonError("PUT /api/tasks/[id]", 404, "Task not found")
          /\ UNCHANGED <<tasks, TaskDependencies>>
     ELSE LET normalizedStatus ==
                IF status = Undefined THEN Undefined ELSE convertStatusToEnum(status)
              incomplete == incompleteDependencies(id, ord)
          IN IF normalizedStatus = "DONE" /\ Len(incomplete) > 0
             THEN /\ resp' = [op |-> "PUT /api/tasks/[id]", status |-> 400,
                              error |-> "Cannot complete this task until all dependencies are finished",
                              incompleteDependencies |-> incomplete]
                  /\ UNCHANGED <<tasks, TaskDependencies>>
             ELSE IF /\ dependencies # NoDeps
                     /\ Len(dependencies[1]) > 0
                     /\ checkCircularDependenciesTask(id, dependencies[1], dependencies[1], ord)
             THEN /\ resp' = JsonError("PUT /api/tasks/[id]", 400, "Circular dependencies detected")
                  /\ UNCHANGED <<tasks, TaskDependencies>>
             ELSE IF dependencies # NoDeps /\ ~connectable(dependencies[1])
             THEN /\ resp' = JsonError("PUT /api/tasks/[id]", 500, "Failed to update task")
                  /\ UNCHANGED <<tasks, TaskDependencies>>
             ELSE /\ tasks' = prismaUpdate(id, title, normalizedStatus, tagsOrEmpty(Undefined))
                  /\ TaskDependencies' =
                       IF dependencies = NoDeps THEN TaskDependencies
                       ELSE (TaskDependencies \ rowsOfTask(id)) \cup connect(id, dependencies[1])
                  /\ resp' = Json("PUT /api/tasks/[id]", 200)

\* DELETE /api/tasks/[id] with the cascade on column A only: rows naming the
\* deleted task as a dependency stay
DELETE_Task_cascadeOnA(id) ==
  /\ req = NoReq
  /\ UNCHANGED calls
  /\ req' = Request("DELETE /api/tasks/[id]", id, Undefined, Undefined, NoDeps)
  /\ UNCHANGED nextId
  /\ IF ~findUnique(id)
     THEN /\ resp' = JsonError("DELETE /api/tasks/[id]", 404, "Task not found")
          /\ UNCHANGED <<tasks, TaskDependencies>>
     ELSE /\ tasks' = prismaDelete(id)
          /\ TaskDependencies' = {e \in TaskDependencies : e[1] # id}
          /\ resp' = Json("DELETE /api/tasks/[id]", 200)

\* DELETE /api/tasks/[id]: both foreign keys of _TaskDependencies cascade
DELETE_Task(id) ==
  /\ req = NoReq
  /\ UNCHANGED calls
  /\ req' = Request("DELETE /api/tasks/[id]", id, Undefined, Undefined, NoDeps)
  /\ UNCHANGED nextId
  /\ IF ~findUnique(id)
     THEN /\ resp' = JsonError("DELETE /api/tasks/[id]", 404, "Task not found")
          /\ UNCHANGED <<tasks, TaskDependencies>>
     ELSE /\ tasks' = prismaDelete(id)
          /\ TaskDependencies' = {e \in TaskDependencies : e[1] # id /\ e[2] # id}
          /\ resp' = Json("DELETE /api/tasks/[id]", 200)

\* POST /api/tasks/[id]/dependencies connecting the proposed ids before the check
POST_Dependencies_connectBeforeCheck(id, dependencies, ord) ==
  /\ req = NoReq
  /\ UNCHANGED calls
  /\ req' = Request("POST /api/tasks/[id]/dependencies", id, Undefined, Undefined, dependencies)
  /\ UNCHANGED <<tasks, nextId>>
  /\ IF dependencies = NoDeps
     THEN /\ resp' = JsonError("POST /api/tasks/[id]/dependencies", 400, "Dependencies must be an array")
          /\ UNCHANGED TaskDependencies
     ELSE IF ~findUnique(id)
     THEN /\ resp' = JsonError("POST /api/tasks/[id]/dependencies", 404, "Task not found")
          /\ UNCHANGED TaskDependencies
     ELSE IF ~connectable(dependencies[1])
     THEN /\ resp' = JsonError("POST /api/tasks/[id]/dependencies", 500, "Failed to update task dependencies")
          /\ UNCHANGED TaskDependencies
     ELSE /\ TaskDependencies' = TaskDependencies \cup connect(id, dependencies[1])
          /\ resp' = IF checkCircularDependencies(id, dependencies[1], ord)
                     THEN JsonError("POST /api/tasks/[id]/dependencies", 400, "Circular dependencies detected")
                     ELSE Json("POST /api/tasks/[id]/dependencies", 200)

\* POST /api/tasks/[id]/dependencies
POST_Dependencies(id, dependencies, ord) ==
  /\ req = NoReq
  /\ UNCHANGED calls
  /\ req' = Request("POST /api/tasks/[id]/dependencies", id, Undefined, Undefined, dependencies)
  /\ UNCHANGED <<tasks, nextId>>
  /\ IF dependencies = NoDeps
     THEN /\ resp' = JsonError("POST /api/tasks/[id]/dependencies", 400, "Dependencies must be an array")
          /\ UNCHANGED TaskDependencies
     ELSE IF ~findUnique(id)
     THEN /\ resp' = JsonError("POST /api/tasks/[id]/dependencies", 404, "Task not found")
          /\ UNCHANGED TaskDependencies
     ELSE IF checkCircularDependencies(id, dependencies[1], ord)
     THEN /\ resp' = JsonError("POST /api/tasks/[id]/dependencies", 400, "Circular dependencies detected")
          /\ UNCHANGED TaskDependencies
     ELSE IF ~connectable(dependencies[1])
     THEN /\ resp' = JsonError("POST /api/tasks/[id]/dependencies", 500, "Failed to update task dependencies")
          /\ UNCHANGED TaskDependencies
     ELSE /\ TaskDependencies' = TaskDependencies \cup connect(id, dependencies[1])
          /\ resp' = Json("POST /api/tasks/[id]/dependencies", 200)

\* DELETE /api/tasks/[id]/dependencies emptying the relation: `set: []`
DELETE_Dependencies_setEmpty(id, dependencies) ==
  /\ req = NoReq
  /\ UNCHANGED calls
  /\ req' = Request("DELETE /api/tasks/[id]/dependencies", id, Undefined, Undefined, dependencies)
  /\ UNCHANGED <<tasks, nextId>>
  /\ IF dependencies = NoDeps
     THEN /\ resp' = JsonError("DELETE /api/tasks/[id]/dependencies", 400, "Dependencies must be an array")
          /\ UNCHANGED TaskDependencies
     ELSE IF ~findUnique(id)
     THEN /\ resp' = JsonError("DELETE /api/tasks/[id]/dependencies", 500, "Failed to remove task dependencies")
          /\ UNCHANGED TaskDependencies
     ELSE /\ TaskDependencies' = TaskDependencies \ rowsOfTask(id)
          /\ resp' = Json("DELETE /api/tasks/[id]/dependencies", 200)

\* DELETE /api/tasks/[id]/dependencies: no lookup of the task before the update
DELETE_Dependencies(id, dependencies) ==
  /\ req = NoReq
  /\ UNCHANGED calls
  /\ req' = Request("DELETE /api/tasks/[id]/dependencies", id, Undefined, Undefined, dependencies)
  /\ UNCHANGED <<tasks, nextId>>
  /\ IF dependencies = NoDeps
     THEN /\ resp' = JsonError("DELETE /api/tasks/[id]/dependencies", 400, "Dependencies must be an array")
          /\ UNCHANGED TaskDependencies
     ELSE IF ~findUnique(id)
     THEN /\ resp' = JsonError("DELETE /api/tasks/[id]/dependencies", 500, "Failed to remove task dependencies")
          /\ UNCHANGED TaskDependencies
     ELSE /\ TaskDependencies' = TaskDependencies \ disconnect(id, dependencies[1])
          /\ resp' = Json("DELETE /api/tasks/[id]/dependencies", 200)

CreateTask == \E title \in {Undefined, TaskTitles[nextId]}, dependencies \in DepInputs :
  POST_Tasks(title, Undefined, dependencies)
UpdateTask == \E id \in Ids, status \in StatusInputs, dependencies \in PutDepInputs,
                 ord \in RowOrders :
  PUT_Task(id, Undefined, status, dependencies, ord)
RemoveTask == \E id \in Ids : DELETE_Task(id)
AddDependencies == \E id \in Ids, dependencies \in DepInputs, ord \in RowOrders :
  POST_Dependencies(id, dependencies, ord)
RemoveDependencies == \E id \in Ids, dependencies \in DepInputs :
  DELETE_Dependencies(id, dependencies)

\* the client has read the response (`await response.json()`); the server is idle again
Deliver ==
  /\ req # NoReq
  /\ req' = NoReq
  /\ resp' = NoResp
  /\ UNCHANGED <<tasks, TaskDependencies, nextId, calls>>

\* one request at a time, each handler running from its first line to its response
Next ==
  \/ CreateTask
  \/ UpdateTask
  \/ RemoveTask
  \/ AddDependencies
  \/ RemoveDependencies
  \/ Deliver

Spec == Init /\ [][Next]_vars

\* --------------------------- POST .../dependencies, one awaited call at a time
RECURSIVE enter(_, _)
RECURSIVE leave(_, _)
RECURSIVE iterate(_)

\* hasCircularDependency without `if (visited.has(taskId)) return false`
enter_revisits(c, taskId) ==
  IF taskId \in c.recursionStack THEN leave(c, TRUE)
  ELSE [c EXCEPT !.visited = @ \cup {taskId}, !.recursionStack = @ \cup {taskId},
                 !.cur = taskId, !.pc = "findDependency"]

\* hasCircularDependency(taskId, ...) is called: runs to its first await
enter(c, taskId) ==
  IF taskId \in c.recursionStack THEN leave(c, TRUE)
  ELSE IF taskId \in c.visited THEN leave(c, FALSE)
  ELSE [c EXCEPT !.visited = @ \cup {taskId}, !.recursionStack = @ \cup {taskId},
                 !.cur = taskId, !.pc = "findDependency"]

\* hasCircularDependency returns `ret` to its caller: `true` unwinds every
\* activation and checkCircularDependencies, and POST answers 400; `false`
\* resumes the caller's loop
leave(c, ret) ==
  IF ret THEN [c EXCEPT !.pc = "done", !.status = 400, !.frames = <<>>]
  ELSE IF c.frames = <<>>
       THEN IF c.rest = <<>> THEN [c EXCEPT !.pc = "update"]
            ELSE enter([c EXCEPT !.rest = Tail(@)], Head(c.rest))
       ELSE iterate(c)

\* `for (const dep of task.dependencies)` of the innermost activation
iterate(c) ==
  LET n == Len(c.frames)
      top == c.frames[n]
  IN IF top.rows = <<>>
     THEN leave([c EXCEPT !.recursionStack = @ \ {top.taskId},
                          !.frames = SubSeq(@, 1, n - 1)], FALSE)
     ELSE IF Head(top.rows) = c.taskId
     THEN leave([c EXCEPT !.recursionStack = @ \ {top.taskId}], TRUE)
     ELSE enter([c EXCEPT !.frames[n].rows = Tail(@)], Head(top.rows))

OtherTables == <<tasks, nextId, req, resp>>

\* the request arrives, as the Dependency Manager sends it: the selected ids
\* never contain the task itself
Receive(h, id, dependencies) ==
  /\ calls[h].pc = "idle"
  /\ id \notin Range(dependencies)
  /\ calls' = [calls EXCEPT ![h] = Call("findTask", id, dependencies, dependencies, {}, {}, <<>>, 0, 0)]
  /\ UNCHANGED <<TaskDependencies, OtherTables>>

\* `const task = await prisma.task.findUnique(...)` of POST, then the synchronous
\* start of checkCircularDependencies
FindTask(h) ==
  /\ calls[h].pc = "findTask"
  /\ calls' = [calls EXCEPT ![h] =
                 IF ~findUnique(@.taskId) THEN [@ EXCEPT !.pc = "done", !.status = 404]
                 ELSE leave(@, FALSE)]
  /\ UNCHANGED <<TaskDependencies, OtherTables>>

\* `const task = await prisma.task.findUnique(...)` of hasCircularDependency: the
\* one store read of the visited node, then the code up to the next await
FindDependency(h, ord) ==
  /\ calls[h].pc = "findDependency"
  /\ calls' = [calls EXCEPT ![h] =
                 IF ~findUnique(@.cur)
                 THEN leave([@ EXCEPT !.recursionStack = @ \ {calls[h].cur}], FALSE)
                 ELSE iterate([@ EXCEPT !.frames =
                        Append(@, [taskId |-> calls[h].cur,
                                   rows |-> dependencyRows(calls[h].cur, ord)])])]
  /\ UNCHANGED <<TaskDependencies, OtherTables>>

\* `await prisma.task.update(...)` of POST: the connect, in one transaction
Update(h) ==
  /\ calls[h].pc = "update"
  /\ IF findUnique(calls[h].taskId) /\ connectable(calls[h].dependencies)
     THEN /\ TaskDependencies' = TaskDependencies \cup connect(calls[h].taskId, calls[h].dependencies)
          /\ calls' = [calls EXCEPT ![h].pc = "done", ![h].status = 200]
     ELSE /\ calls' = [calls EXCEPT ![h].pc = "done", ![h].status = 500]
          /\ UNCHANGED TaskDependencies
  /\ UNCHANGED OtherTables

\* the response has been read
Return(h) ==
  /\ calls[h].pc = "done"
  /\ calls' = [calls EXCEPT ![h] = Idle]
  /\ UNCHANGED <<TaskDependencies, OtherTables>>

\* a task is created while no update is in progress, without dependencies
CreateAlone ==
  /\ \A h \in Handlers : calls[h].pc = "idle"
  /\ POST_Tasks(TaskTitles[nextId], Undefined, NoDeps)

\* ... and its response is read before the next request is sent
DeliverAlone ==
  /\ \A h \in Handlers : calls[h].pc = "idle"
  /\ Deliver

\* tasks are created one request at a time; dependency-set updates overlap
Concurrent ==
  \/ CreateAlone
  \/ DeliverAlone
  \/ \E h \in Handlers, id \in Ids, dependencies \in DepLists : Receive(h, id, dependencies)
  \/ \E h \in Handlers : FindTask(h)
  \/ \E h \in Handlers, ord \in RowOrders : FindDependency(h, ord)
  \/ \E h \in Handlers : Update(h)
  \/ \E h \in Handlers : Return(h)

SpecConc == Init /\ [][Concurrent]_vars

\* ------------------------------------------------------------------ properties
\* The dependency edges as the table holds them, read without the handlers' queries.
Edges == TaskDependencies
DirectDeps(t) == {e[2] : e \in {x \in Edges : x[1] = t}}
DirectDepsOfAll(S) == UNION {DirectDeps(x) : x \in S}

RECURSIVE ReachableIn(_, _)
\* the tasks reached from the set S over one to n dependency edges
ReachableIn(S, n) ==
  IF n = 0 THEN {}
  ELSE DirectDepsOfAll(S) \cup ReachableIn(DirectDepsOfAll(S), n - 1)

\* the tasks t depends on, directly or transitively
Ancestors(t) == ReachableIn({t}, MaxTasks)

IsDone(t) == tasks[t].status = "DONE"
Blocking(t) == {d \in DirectDeps(t) : ~IsDone(d)}

PutOp == "PUT /api/tasks/[id]"
PostDepsOp == "POST /api/tasks/[id]/dependencies"
Circular == "Circular dependencies detected"
Handled == req' # NoReq
StatusOnly == req'.op = PutOp /\ req'.title = Undefined /\ req'.dependencies = NoDeps
ProposedIds(r) == IF r.dependencies = NoDeps THEN {} ELSE Range(r.dependencies[1])

\* C1 (acyclicity): in every reachable store no task is reachable from itself
\* over dependency edges.
C1_Acyclic == \A t \in Ids : t \notin Ancestors(t)

\* C2 (self-dependency rejection): a dependency-set proposal for an existing task
\* that contains the task's own id, sent to POST /api/tasks/[id]/dependencies or
\* PUT /api/tasks/[id], is answered "Circular dependencies detected".
C2_SelfDependencyRejected ==
  (/\ req.op \in {PostDepsOp, PutOp}
   /\ findUnique(req.id)
   /\ req.id \in ProposedIds(req))
  => resp.error = Circular

\* C3 (cycle rejection is total): a request rejected as circular leaves both
\* tables exactly as they were: no proposed edge is added, no status or other
\* field of the same request is written.
C3_CycleRejectionTotal ==
  [][(Handled /\ resp'.error = Circular)
     => (tasks' = tasks /\ TaskDependencies' = TaskDependencies)]_vars

\* C3 witness: a two-id proposal was rejected as circular although one of its
\* ids names an existing task that is not yet a dependency.
C3_Witness ==
  /\ req.op = PostDepsOp
  /\ resp.error = Circular
  /\ Len(req.dependencies[1]) = 2
  /\ \E d \in ProposedIds(req) : findUnique(d) /\ d # req.id /\ d \notin DirectDeps(req.id)

\* C4 (check-then-commit is one logical step): whatever the interleaving of two
\* dependency-set updates, neither proposing a self-dependency, the committed
\* graph has no cycle.
C4_InterleavedUpdatesKeepDag ==
  \A t \in DOMAIN tasks : ~(\E d \in DirectDeps(t) : d = t \/ t \in Ancestors(d))

\* C5 as stated (completion gating as a store invariant): no done task has a
\* dependency that is not done.
C5_NoDoneTaskWithOpenDependency ==
  \A t \in DOMAIN tasks : IsDone(t) => Blocking(t) = {}

\* C5 amended (completion gating at the moment of completion): in every step, a
\* task whose status becomes done has only done dependencies in the store the
\* step starts from, and a task the step creates is not done.
C5_DoneOnlyWhenUnblocked ==
  [][/\ \A t \in DOMAIN tasks \cap DOMAIN tasks' :
          (~IsDone(t) /\ tasks'[t].status = "DONE") => Blocking(t) = {}
     /\ \A t \in DOMAIN tasks' \ DOMAIN tasks : tasks'[t].status # "DONE"]_vars

\* C5 witness: a task that has dependencies was completed by a status update.
C5_Witness ==
  /\ req.op = PutOp
  /\ req.status = "done"
  /\ resp.status = 200
  /\ findUnique(req.id)
  /\ IsDone(req.id)
  /\ DirectDeps(req.id) \ {req.id} # {}

\* C6 (completion gate on the transition): a PUT /api/tasks/[id] with status done
\* on an existing task is accepted only if every stored dependency of the task is
\* done; otherwise it is answered 400 and the task's status is unchanged.
C6_CompletionGate ==
  [][(Handled /\ req'.op = PutOp /\ req'.status = "done" /\ findUnique(req'.id))
     => /\ resp'.status = 200 => Blocking(req'.id) = {}
        /\ Blocking(req'.id) # {} =>
             /\ resp'.status = 400
             /\ tasks'[req'.id].status = tasks[req'.id].status]_vars

\* C6 witness: a completion was refused for a task that is not done.
C6_Witness ==
  /\ req.op = PutOp
  /\ req.status = "done"
  /\ resp.status = 400
  /\ findUnique(req.id)
  /\ ~IsDone(req.id)
  /\ Blocking(req.id) # {}

\* C7 (completion is permitted once unblocked): a status-only update to done of an
\* existing task whose dependencies are all done is accepted and stores done.
C7_CompletionPermitted ==
  [][(Handled /\ StatusOnly /\ req'.status = "done" /\ findUnique(req'.id)
        /\ Blocking(req'.id) = {})
     => (resp'.status = 200 /\ tasks'[req'.id].status = "DONE")]_vars

\* C7 witness: a task with a (done) dependency was completed by a status-only update.
C7_Witness ==
  /\ req.op = PutOp
  /\ req.status = "done"
  /\ req.dependencies = NoDeps
  /\ resp.status = 200
  /\ findUnique(req.id)
  /\ IsDone(req.id)
  /\ \E d \in DirectDeps(req.id) : d # req.id /\ IsDone(d)

\* C8 (a rejected completion carries the full blocking list and changes nothing):
\* the incompleteDependencies of a refused completion are exactly the task's
\* dependencies that are not done, each once with its id and title, the list is
\* not empty, and both tables are unchanged.
C8_BlockingListExact ==
  [][(Handled /\ req'.op = PutOp /\ resp'.status = 400 /\ resp'.error # Circular)
     => /\ Range(resp'.incompleteDependencies) =
             {[id |-> d, title |-> tasks[d].title] : d \in Blocking(req'.id)}
        /\ Len(resp'.incompleteDependencies) = Cardinality(Blocking(req'.id))
        /\ Len(resp'.incompleteDependencies) > 0
        /\ tasks' = tasks
        /\ TaskDependencies' = TaskDependencies]_vars

\* C8 witness: a refused completion of a task with one done and one open dependency.
C8_Witness ==
  /\ req.op = PutOp
  /\ resp.status = 400
  /\ Len(resp.incompleteDependencies) > 0
  /\ \E d \in DirectDeps(req.id) : IsDone(d)

\* C9 (transitions other than into done are unconditional and do not cascade): a
\* status-only update of an existing task to todo or in progress is accepted
\* whatever the statuses around it, and changes no other task.
C9_ReopenUnconditional ==
  [][(Handled /\ StatusOnly /\ req'.status \in {"todo", "in-progress", "in_progress"}
        /\ findUnique(req'.id))
     => /\ resp'.status = 200
        /\ DOMAIN tasks' = DOMAIN tasks
        /\ \A t \in DOMAIN tasks \ {req'.id} : tasks'[t] = tasks[t]]_vars

\* C9 witness: a dependency was reopened while a dependent of it stays done.
C9_Witness ==
  /\ req.op = PutOp
  /\ req.status = "todo"
  /\ resp.status = 200
  /\ findUnique(req.id)
  /\ ~IsDone(req.id)
  /\ \E t \in DOMAIN tasks : t # req.id /\ req.id \in DirectDeps(t) /\ IsDone(t)

\* C10 (a dependency-set update is a replacement): after an accepted
\* POST /api/tasks/[id]/dependencies with list D the task's stored dependency
\* set is exactly D.
C10_ReplacesDependencySet ==
  (req.op = PostDepsOp /\ resp.status = 200) => DirectDeps(req.id) = ProposedIds(req)

\* the rows <<t, d>> a proposal for the task of request r asks for
ProposedRows(r) == {<<r.id, d>> : d \in ProposedIds(r)}

\* C11 (idempotence of dependency-set updates): an accepted POST
\* /api/tasks/[id]/dependencies leaves every proposed id a dependency of the
\* task, a request that is not accepted leaves the table as it was, and a
\* request whose proposed ids all are dependencies of the task already (the same
\* proposal sent a second time) leaves the table as it was; the table holds one
\* row per pair also when the list names an id twice.
C11_Idempotent ==
  [][(Handled /\ req'.op = PostDepsOp)
     => /\ resp'.status = 200 => ProposedRows(req') \subseteq TaskDependencies'
        /\ resp'.status # 200 => TaskDependencies' = TaskDependencies
        /\ ProposedRows(req') \subseteq TaskDependencies
             => TaskDependencies' = TaskDependencies
        /\ resp'.status = 200
             => Cardinality({e \in TaskDependencies' : e[1] = req'.id})
                  <= Cardinality({e \in TaskDependencies : e[1] = req'.id})
                       + Cardinality(ProposedIds(req'))]_vars

\* C11 witness: an accepted proposal that names the same id twice, the task
\* having that one dependency.
C11_Witness ==
  /\ req.op = PostDepsOp
  /\ resp.status = 200
  /\ req.dependencies # NoDeps
  /\ Len(req.dependencies[1]) = 2
  /\ Cardinality(ProposedIds(req)) = 1
  /\ req.id \notin ProposedIds(req)
  /\ DirectDeps(req.id) = ProposedIds(req)

DeleteOp == "DELETE /api/tasks/[id]"

\* C12 (referential integrity with deletion cascade): in every reachable store
\* both ends of every dependency row name an existing task; an accepted
\* DELETE /api/tasks/[id] of task X removes X and exactly the rows with X at
\* either end.
C12_ReferentialIntegrity ==
  /\ [](\A e \in TaskDependencies : e[1] \in DOMAIN tasks /\ e[2] \in DOMAIN tasks)
  /\ [][(Handled /\ req'.op = DeleteOp /\ resp'.status = 200)
        => /\ req'.id \in DOMAIN tasks
           /\ req'.id \notin DOMAIN tasks'
           /\ \A e \in TaskDependencies' : e[1] # req'.id /\ e[2] # req'.id
           /\ TaskDependencies' =
                {e \in TaskDependencies : e[1] # req'.id /\ e[2] # req'.id}]_vars

\* C12 witness: a task was deleted and a dependency row between two tasks created
\* after it is still there.
C12_Witness ==
  /\ req.op = DeleteOp
  /\ resp.status = 200
  /\ req.id \notin DOMAIN tasks
  /\ req.id < nextId
  /\ \E e \in TaskDependencies : e[1] # e[2] /\ e[1] > req.id /\ e[2] > req.id

\* ------------------------------------------------- GET /api/tasks/analysis
\* Instants are counted in ticks, TicksPerDay of them to a day (the code counts
\* milliseconds); the clock of the server reads 0..MaxNow.
TicksPerDay == 2
MaxNow == 7
Nows == 0..MaxNow
\* the due date a client gives the task it creates, by task: 1, 5, 7, 0 and 3
\* September 2024, counted in ticks from 30 August
DueDates == <<4, 12, 16, 2, 8>>
\* the "dueDate" column
dueDate(id) == DueDates[id]
\* new Date(0), an instant before every due date and every reading of the clock
Epoch == -1
\* dependency.completedAt: the "tasks" table has no such column
completedAt(id) == Undefined

\* task.id as the string it is in the program (titles and ids are both strings
\* there, and criticalPath is compared with ids)
idString(id) == ToString(id)

\* findMany orderBy createdAt desc: the rows, the newest first
findMany ==
  LET newest == nextId - 1
  IN SelectSeq([i \in 1..newest |-> newest + 1 - i], LAMBDA t : findUnique(t))

\* the result of dfs and the two collections it mutates
Visit(path, visited, pathLengths) ==
  [path |-> path, visited |-> visited, pathLengths |-> pathLengths]

RECURSIVE dfs(_, _, _, _)
RECURSIVE dfsLoop(_, _, _, _, _)

\* dfs putting the task before the path of its dependencies: [taskId, ...longestPath]
dfs_taskFirst(taskId, visited, pathLengths, ord) ==
  IF taskId \in visited
  THEN Visit(IF taskId \in DOMAIN pathLengths THEN <<taskId>> ELSE <<>>, visited, pathLengths)
  ELSE LET v == visited \cup {taskId}
       IN IF ~findUnique(taskId) \/ dependencyRows(taskId, ord) = <<>>
          THEN Visit(<<taskId>>, v, (taskId :> 1) @@ pathLengths)
          ELSE LET r == dfsLoop(dependencyRows(taskId, ord), v, pathLengths, <<>>, ord)
                   currentPath == <<taskId>> \o r.path
               IN Visit(currentPath, r.visited, (taskId :> Len(currentPath)) @@ r.pathLengths)

\* analysis route, dfs(taskId, taskMap, visited, pathLengths)
dfs(taskId, visited, pathLengths, ord) ==
  IF taskId \in visited
  THEN Visit(IF taskId \in DOMAIN pathLengths THEN <<taskId>> ELSE <<>>, visited, pathLengths)
  ELSE LET v == visited \cup {taskId}
       IN IF ~findUnique(taskId) \/ dependencyRows(taskId, ord) = <<>>
          THEN Visit(<<taskId>>, v, (taskId :> 1) @@ pathLengths)
          ELSE LET r == dfsLoop(dependencyRows(taskId, ord), v, pathLengths, <<>>, ord)
                   currentPath == Append(r.path, taskId)
               IN Visit(currentPath, r.visited, (taskId :> Len(currentPath)) @@ r.pathLengths)

\* dfs: `task.dependencies.forEach`, maxLength being longestPath.length throughout
dfsLoop(rows, visited, pathLengths, longestPath, ord) ==
  IF rows = <<>> THEN Visit(longestPath, visited, pathLengths)
  ELSE LET depPath == dfs(Head(rows), visited, pathLengths, ord)
       IN dfsLoop(Tail(rows), depPath.visited, depPath.pathLengths,
                  IF Len(depPath.path) > Len(longestPath) THEN depPath.path ELSE longestPath,
                  ord)

RECURSIVE findCriticalPathLoop(_, _, _, _, _)
\* findCriticalPath: `tasks.forEach`, maxLength being criticalPath.length throughout
findCriticalPathLoop(list, visited, pathLengths, criticalPath, ord) ==
  IF list = <<>> THEN criticalPath
  ELSE IF Head(list) \in visited
  THEN findCriticalPathLoop(Tail(list), visited, pathLengths, criticalPath, ord)
  ELSE LET path == dfs(Head(list), visited, pathLengths, ord)
       IN findCriticalPathLoop(Tail(list), path.visited, path.pathLengths,
                               IF Len(path.path) > Len(criticalPath) THEN path.path
                               ELSE criticalPath,
                               ord)

\* findCriticalPath before the ids are converted to titles
criticalPathIds(ord) == findCriticalPathLoop(findMany, {}, <<>>, <<>>, ord)
\* findCriticalPath: the titles of the tasks on the path
findCriticalPath(ord) ==
  LET ids == criticalPathIds(ord)
  IN [i \in 1..Len(ids) |->
        IF findUnique(ids[i]) THEN tasks[ids[i]].title ELSE idString(ids[i])]

\* the loop keeping the date of the dependency it saw last, not the latest
latestCompletionDate_lastRow(rows, latest) ==
  IF rows = <<>> THEN latest ELSE dueDate(rows[Len(rows)])

RECURSIVE latestCompletionDate(_, _)
\* calculateEarliestStartDate: `task.dependencies.forEach`, from new Date(0)
latestCompletionDate(rows, latest) ==
  IF rows = <<>> THEN latest
  ELSE IF ~findUnique(Head(rows)) THEN latestCompletionDate(Tail(rows), latest)
  ELSE LET dependency == Head(rows)
           dependencyCompletionDate == dueDate(dependency)
           completionDate ==
             IF tasks[dependency].status = "DONE" /\ completedAt(dependency) # Undefined
             THEN completedAt(dependency)
             ELSE dependencyCompletionDate
       IN latestCompletionDate(Tail(rows),
                               IF completionDate > latest THEN completionDate ELSE latest)

\* calculateEarliestStartDate(task, taskMap, earliestStartDates)
calculateEarliestStartDate(task, now, ord) ==
  IF dependencyRows(task, ord) = <<>> THEN now
  ELSE latestCompletionDate(dependencyRows(task, ord), Epoch)

\* the task an object or Map keyed by task.title holds for `title` once the
\* tasks have been entered in the order of the list: the last one so titled
taskByTitle(title) ==
  LET titled == SelectSeq(findMany, LAMBDA t : tasks[t].title = title)
  IN titled[Len(titled)]

\* calculateEarliestStartDates: a record keyed by task title, written task by
\* task in the order of the list
calculateEarliestStartDates(now, ord) ==
  [title \in {tasks[t].title : t \in DOMAIN tasks} |->
     calculateEarliestStartDate(taskByTitle(title), now, ord)]

\* Math.floor in the place of Math.ceil
ceilDiv_floor(a, b) == a \div b

\* Math.ceil(a / b) for b > 0
ceilDiv(a, b) == -((-a) \div b)

RECURSIVE totalDays(_, _)
\* calculateTotalDuration: the loop over criticalPath
totalDays(criticalPath, now) ==
  IF criticalPath = <<>> THEN 0
  ELSE IF \A t \in DOMAIN tasks : tasks[t].title # Head(criticalPath)
  THEN totalDays(Tail(criticalPath), now)
  ELSE LET task == taskByTitle(Head(criticalPath))
           daysDiff == ceilDiv(dueDate(task) - now, TicksPerDay)
       IN (IF daysDiff > 1 THEN daysDiff ELSE 1) + totalDays(Tail(criticalPath), now)

\* calculateTotalDuration(tasks, criticalPath)
calculateTotalDuration(criticalPath, now) ==
  IF Len(criticalPath) = 0 THEN 0 ELSE totalDays(criticalPath, now)

AnalysisOp == "GET /api/tasks/analysis"

\* GET /api/tasks/analysis, answered while the server's clock reads `now`
GET_Analysis(now, ord) ==
  /\ req = NoReq
  /\ req' = Request(AnalysisOp, 0, Undefined, Undefined, NoDeps) @@ [now |-> now]
  /\ resp' = Json(AnalysisOp, 200) @@
               [earliestStartDates |-> calculateEarliestStartDates(now, ord),
                criticalPath |-> findCriticalPath(ord),
                totalDuration |-> calculateTotalDuration(findCriticalPath(ord), now)]
  /\ UNCHANGED <<tasks, TaskDependencies, nextId, calls>>

Analyze == \E now \in Nows, ord \in RowOrders : GET_Analysis(now, ord)

\* useTasks moveTask: a status-only update
MoveTask == \E id \in Ids, status \in {"in-progress", "done"}, ord \in RowOrders :
  PUT_Task(id, Undefined, status, NoDeps, ord)

\* Dependency Manager: one dependency selected and saved
AddDependency == \E id \in Ids, d \in Ids, ord \in RowOrders :
  POST_Dependencies(id, SomeDeps(<<d>>), ord)

\* the store filled and changed one request at a time, and analysed
NextAnalysis ==
  \/ CreateTask
  \/ MoveTask
  \/ AddDependency
  \/ Deliver
  \/ Analyze

SpecAnalysis == Init /\ [][NextAnalysis]_vars

\* ------------------------------------------------------ properties, analysis
Acyclic == \A t \in Ids : t \notin Ancestors(t)
Max(S) == CHOOSE x \in S : \A y \in S : y <= x

RECURSIVE ChainInto(_, _)
\* the number of tasks on the longest chain of dependency edges ending in t,
\* chains of more than n tasks cut to n
ChainInto(t, n) ==
  IF n = 0 THEN 0
  ELSE 1 + Max({0} \cup {ChainInto(d, n - 1) : d \in DirectDeps(t)})

\* the number of tasks on the longest chain of an acyclic store
LongestChain == Max({0} \cup {ChainInto(t, MaxTasks) : t \in DOMAIN tasks})

\* C13 (the critical path is the longest chain): the critical path the analysis
\* of an acyclic store returns has as many tasks as the longest chain of
\* dependency edges.
C13_CriticalPathIsLongestChain ==
  (req.op = AnalysisOp /\ Acyclic) => Len(resp.criticalPath) = LongestChain

\* a dependency's reference date: completedAt if it is done and completedAt is
\* set, else its due date
ReferenceDate(d) ==
  IF IsDone(d) /\ completedAt(d) # Undefined THEN completedAt(d) ELSE dueDate(d)

GraphSize == 4
GraphIds == 1..GraphSize
\* the orders in which a task's dependencies arrive: by ascending or descending id
GraphOrders == {[i \in GraphIds |-> i], [i \in GraphIds |-> GraphSize + 1 - i]}
\* the orders of the `tasks` prop: as fetched (newest first), or oldest first
\* after the hook has rebuilt its list
TaskLists == {[i \in GraphIds |-> GraphSize + 1 - i], [i \in GraphIds |-> i]}

\* the result of calculateLevel and the two collections it mutates
Level(level, levels, visited) == [level |-> level, levels |-> levels, visited |-> visited]

RECURSIVE calculateLevel(_, _, _, _)
RECURSIVE calculateLevelLoop(_, _, _, _, _)

\* with Math.max(maxLevel, depLevel) in the loop: the dependency's level, not one more
calculateLevelLoop_noIncrement(rows, maxLevel, levels, visited, ord) ==
  IF rows = <<>> THEN Level(maxLevel, levels, visited)
  ELSE LET dep == calculateLevel(Head(rows), levels, visited, ord)
       IN calculateLevelLoop(Tail(rows),
                             IF dep.level > maxLevel THEN dep.level ELSE maxLevel,
                             dep.levels, dep.visited, ord)

\* calculateLevel answering -1 for a task whose level is being computed
calculateLevel_visitedBelowZero(taskId, levels, visited, ord) ==
  IF taskId \in DOMAIN levels THEN Level(levels[taskId], levels, visited)
  ELSE IF taskId \in visited THEN Level(-1, levels, visited)
  ELSE LET v == visited \cup {taskId}
       IN IF ~findUnique(taskId) \/ dependencyRows(taskId, ord) = <<>>
          THEN Level(0, (taskId :> 0) @@ levels, v)
          ELSE LET r == calculateLevelLoop(dependencyRows(taskId, ord), 0, levels, v, ord)
               IN Level(r.level, (taskId :> r.level) @@ r.levels, r.visited)

\* buildDependencyGraph, calculateLevel(taskId)
calculateLevel(taskId, levels, visited, ord) ==
  IF taskId \in DOMAIN levels THEN Level(levels[taskId], levels, visited)
  ELSE IF taskId \in visited THEN Level(0, levels, visited)
  ELSE LET v == visited \cup {taskId}
       IN IF ~findUnique(taskId) \/ dependencyRows(taskId, ord) = <<>>
          THEN Level(0, (taskId :> 0) @@ levels, v)
          ELSE LET r == calculateLevelLoop(dependencyRows(taskId, ord), 0, levels, v, ord)
               IN Level(r.level, (taskId :> r.level) @@ r.levels, r.visited)

\* calculateLevel: `task.dependencies.forEach`
calculateLevelLoop(rows, maxLevel, levels, visited, ord) ==
  IF rows = <<>> THEN Level(maxLevel, levels, visited)
  ELSE LET dep == calculateLevel(Head(rows), levels, visited, ord)
       IN calculateLevelLoop(Tail(rows),
                             IF dep.level + 1 > maxLevel THEN dep.level + 1 ELSE maxLevel,
                             dep.levels, dep.visited, ord)

RECURSIVE calculateLevels(_, _, _, _)
\* buildDependencyGraph: `tasks.forEach(task => calculateLevel(task.id))`
calculateLevels(list, levels, visited, ord) ==
  IF list = <<>> THEN levels
  ELSE LET r == calculateLevel(Head(list), levels, visited, ord)
       IN calculateLevels(Tail(list), r.levels, r.visited, ord)

\* buildDependencyGraph: a node's level, `levels.get(task.id) || 0`
nodeLevels(list, ord) ==
  LET levels == calculateLevels(list, <<>>, {}, ord)
  IN [t \in Range(list) |-> IF t \in DOMAIN levels THEN levels[t] ELSE 0]

\* Array.prototype.indexOf, counted from 1; 0 when absent
indexOf(s, x) == IF \E i \in DOMAIN s : s[i] = x
                 THEN CHOOSE i \in DOMAIN s : s[i] = x /\ \A j \in 1..(i - 1) : s[j] # x
                 ELSE 0

\* buildDependencyGraph: the nodes marked isCritical, `criticalPath.includes(task.id)`
criticalNodes(list, criticalPath) ==
  {t \in Range(list) : indexOf(criticalPath, idString(t)) # 0}

\* buildDependencyGraph: the edges <<from, to>> marked isCritical
criticalEdges(list, criticalPath) ==
  {<<e[2], e[1]>> : e \in
     {x \in TaskDependencies :
        /\ x[1] \in Range(list)
        /\ indexOf(criticalPath, idString(x[2])) # 0
        /\ indexOf(criticalPath, idString(x[1])) # 0
        /\ indexOf(criticalPath, idString(x[1])) = indexOf(criticalPath, idString(x[2])) + 1}}

GraphOp == "DependencyGraph"

\* page.tsx in graph view: the analysis is fetched and the graph built from the
\* task list and analysisData.criticalPath
DependencyGraph(list, ord) ==
  /\ req = NoReq
  /\ req' = Request(GraphOp, 0, Undefined, Undefined, NoDeps) @@ [tasks |-> list]
  /\ resp' = Json(GraphOp, 200) @@
               [criticalPath |-> findCriticalPath(ord),
                levels |-> nodeLevels(list, ord),
                criticalNodes |-> criticalNodes(list, findCriticalPath(ord)),
                criticalEdges |-> criticalEdges(list, findCriticalPath(ord))]
  /\ UNCHANGED <<tasks, TaskDependencies, nextId, calls>>

ShowGraph == \E list \in TaskLists, ord \in GraphOrders : DependencyGraph(list, ord)

\* the task sets shown: GraphSize tasks and any acyclic set of dependencies
\* between them, no task depending on itself
InitGraph ==
  /\ tasks = [i \in GraphIds |-> [title |-> TaskTitles[i], status |-> "TODO", tags |-> <<>>]]
  /\ TaskDependencies \in SUBSET {e \in GraphIds \X GraphIds : e[1] # e[2]}
  /\ \A t \in GraphIds : t \notin ReachableIn({t}, GraphSize)
  /\ nextId = GraphSize + 1
  /\ req = NoReq
  /\ resp = NoResp
  /\ calls = [h \in Handlers |-> Idle]

NextGraph ==
  \/ ShowGraph
  \/ Deliver

SpecGraph == InitGraph /\ [][NextGraph]_vars

RECURSIVE LevelOf(_, _)
\* 0 for a task without dependencies, else one more than the highest level of
\* its dependencies; chains of more than n edges cut
LevelOf(t, n) ==
  IF n = 0 \/ DirectDeps(t) = {} THEN 0
  ELSE 1 + Max({LevelOf(d, n - 1) : d \in DirectDeps(t)})

\* C15 (level assignment): in the graph built from an acyclic task set a task
\* without dependencies has level 0 and any other task one more than the highest
\* level of its dependencies, whatever the order of the task list and of the
\* dependencies.
C15_LevelAssignment ==
  req.op = GraphOp =>
    \A t \in DOMAIN tasks :
      /\ resp.levels[t] = LevelOf(t, GraphSize)
      /\ \A d \in DirectDeps(t) : resp.levels[d] < resp.levels[t]

\* C15 witness: a task at level 3 with dependencies at levels 1 and 2.
C15_Witness ==
  /\ req.op = GraphOp
  /\ \E t \in DOMAIN tasks : \E d, e \in DirectDeps(t) :
       resp.levels[t] = 3 /\ resp.levels[d] = 1 /\ resp.levels[e] = 2

\* whole days from `now` to the instant `due`, rounded up
DaysUntil(due, now) ==
  LET q == (due - now) \div TicksPerDay
  IN IF q * TicksPerDay = due - now THEN q ELSE q + 1

RECURSIVE SumOfDays(_, _)
\* the sum over the titles of `path` of max(1, days until the task's due date)
SumOfDays(path, now) ==
  IF path = <<>> THEN 0
  ELSE LET t == CHOOSE x \in DOMAIN tasks : tasks[x].title = Head(path)
       IN Max({1, DaysUntil(dueDate(t), now)}) + SumOfDays(Tail(path), now)

\* C16 (total duration): totalDuration is 0 for an empty critical path and
\* otherwise the sum over the tasks of the critical path of max(1, whole days
\* from now to the due date, rounded up); it is at least the number of tasks on
\* the path.
C16_TotalDuration ==
  req.op = AnalysisOp =>
    /\ resp.criticalPath = <<>> => resp.totalDuration = 0
    /\ DOMAIN tasks = {} => resp.criticalPath = <<>>
    /\ resp.totalDuration = SumOfDays(resp.criticalPath, req.now)
    /\ resp.totalDuration >= Len(resp.criticalPath)

\* C16 witness: a critical path with an overdue task, counted as one day, and a
\* task due in a number of days that is not whole.
C16_Witness ==
  /\ req.op = AnalysisOp
  /\ Len(resp.criticalPath) >= 2
  /\ \E i, j \in DOMAIN resp.criticalPath :
       LET a == CHOOSE x \in DOMAIN tasks : tasks[x].title = resp.criticalPath[i]
           b == CHOOSE x \in DOMAIN tasks : tasks[x].title = resp.criticalPath[j]
       IN /\ dueDate(a) < req.now
          /\ dueDate(b) > req.now + TicksPerDay
          /\ (dueDate(b) - req.now) % TicksPerDay # 0
  /\ resp.totalDuration > Len(resp.criticalPath)

\* ------------------------------------------------- tasks with tags, updated
\* the tags of a create request: absent, or one tag
TagInputs == {Undefined, <<"urgent">>}

\* create-task dialog: a task with tags and at most one dependency
CreateTagged == \E tags \in TagInputs, dependencies \in PutDepInputs :
  POST_Tasks(TaskTitles[nextId], tags, dependencies)

\* tasks are created with tags and moved between the columns of the board
NextUpdate ==
  \/ CreateTagged
  \/ MoveTask
  \/ Deliver

SpecUpdate == Init /\ [][NextUpdate]_vars

\* C17 (a partial update preserves the frame): an accepted status-only
\* PUT /api/tasks/[id] leaves the task's title, tags and dependency set, and
\* every other task, as they were.
C17_PartialUpdateKeepsFrame ==
  [][(Handled /\ StatusOnly /\ resp'.status = 200)
     => /\ tasks'[req'.id].title = tasks[req'.id].title
        /\ tasks'[req'.id].tags = tasks[req'.id].tags
        /\ TaskDependencies' = TaskDependencies
        /\ \A t \in DOMAIN tasks \ {req'.id} : tasks'[t] = tasks[t]]_vars

DeleteDepsOp == "DELETE /api/tasks/[id]/dependencies"

\* C18 (not_found is a structured rejection): a PUT or DELETE on /api/tasks/[id],
\* or a POST or DELETE on /api/tasks/[id]/dependencies with a dependencies array,
\* addressed to an id that names no task is answered 404 'Task not found' and
\* leaves both tables unchanged.
C18_NotFoundIsStructured ==
  [][(/\ Handled
      /\ \/ req'.op \in {PutOp, DeleteOp}
         \/ req'.op \in {PostDepsOp, DeleteDepsOp} /\ req'.dependencies # NoDeps
      /\ ~findUnique(req'.id))
     => /\ resp'.status = 404
        /\ resp'.error = "Task not found"
        /\ tasks' = tasks
        /\ TaskDependencies' = TaskDependencies]_vars

\* C19 (the critical path of the analysis is the one highlighted): every task
\* whose title is on the criticalPath of the analysis is a node marked isCritical,
\* and every dependency edge between two consecutive tasks of the path is marked
\* critical.
C19_CriticalPathHighlighted ==
  req.op = GraphOp =>
    /\ \A t \in DOMAIN tasks :
         (\E i \in DOMAIN resp.criticalPath : resp.criticalPath[i] = tasks[t].title)
           => t \in resp.criticalNodes
    /\ \A i \in 1..(Len(resp.criticalPath) - 1) :
         \A d, t \in DOMAIN tasks :
           (/\ tasks[d].title = resp.criticalPath[i]
            /\ tasks[t].title = resp.criticalPath[i + 1]
            /\ <<t, d>> \in TaskDependencies)
             => <<d, t>> \in resp.criticalEdges

\* C20 (no false rejection on the dependencies route): on an acyclic store a
\* POST /api/tasks/[id]/dependencies for an existing task t with existing ids D,
\* t not among them, is accepted if t is reachable from no d in D and rejected
\* as circular otherwise, in whatever order D lists its ids.
C20_NoFalseRejection ==
  [][(/\ Handled
      /\ req'.op = PostDepsOp
      /\ req'.dependencies # NoDeps
      /\ Acyclic
      /\ findUnique(req'.id)
      /\ \A d \in ProposedIds(req') : findUnique(d)
      /\ req'.id \notin ProposedIds(req'))
     => IF \A d \in ProposedIds(req') : req'.id \notin Ancestors(d)
        THEN resp'.status = 200
        ELSE resp'.error = Circular]_vars

\* C20 witness: an accepted proposal of two ids, the second listed being a
\* dependency of the first, on an acyclic store.
C20_Witness ==
  /\ req.op = PostDepsOp
  /\ resp.status = 200
  /\ req.dependencies # NoDeps
  /\ Len(req.dependencies[1]) = 2
  /\ req.id \notin ProposedIds(req)
  /\ req.dependencies[1][2] \in DirectDeps(req.dependencies[1][1])
  /\ req.dependencies[1][1] # req.dependencies[1][2]
  /\ Acyclic

\* C21 (no false rejection on the task-update route): on an acyclic store a
\* PUT /api/tasks/[id] for an existing task t that asks for no status change
\* and carries a non-empty list of existing ids, t not among them and t
\* reachable from none of them, is accepted and not answered
\* "Circular dependencies detected".
C21_PutNoFalseRejection ==
  [][(/\ Handled
      /\ req'.op = PutOp
      /\ req'.status = Undefined
      /\ req'.dependencies # NoDeps
      /\ ProposedIds(req') # {}
      /\ Acyclic
      /\ findUnique(req'.id)
      /\ \A d \in ProposedIds(req') : findUnique(d)
      /\ req'.id \notin ProposedIds(req')
      /\ \A d \in ProposedIds(req') : req'.id \notin Ancestors(d))
     => resp'.status = 200]_vars

\* C22 (earliest start propagated through the ancestor chain): in the analysis
\* of an acyclic store every task's earliest start is no earlier than the
\* reference date of each task it depends on, directly or transitively.
C22_EarliestStartPropagated ==
  (req.op = AnalysisOp /\ Acyclic) =>
    \A t \in DOMAIN tasks : \A a \in Ancestors(t) :
      resp.earliestStartDates[tasks[t].title] >= ReferenceDate(a)

\* C23 (the critical path is a chain, upstream first): in the analysis of an
\* acyclic store no task appears twice on the critical path and each task
\* after the first directly depends on the task just before it.
C23_CriticalPathIsChain ==
  (req.op = AnalysisOp /\ Acyclic) =>
    LET path == resp.criticalPath
    IN /\ \A i, j \in 1..Len(path) : i # j => path[i] # path[j]
       /\ \A i \in 1..(Len(path) - 1) :
            <<taskByTitle(path[i + 1]), taskByTitle(path[i])>> \in TaskDependencies

\* C23 witness: an analysis of an acyclic store whose critical path has three
\* tasks, the first of them the task created first.
C23_Witness ==
  /\ req.op = AnalysisOp
  /\ Acyclic
  /\ Len(resp.criticalPath) = 3
  /\ taskByTitle(resp.criticalPath[1]) = 1

\* C24 (the critical path starts at a root): for a non-empty acyclic task set
\* the first task of the critical path found has no dependencies.
C24_CriticalPathStartsAtRoot ==
  (req.op = GraphOp /\ DOMAIN tasks # {}) =>
    /\ resp.criticalPath # <<>>
    /\ DirectDeps(taskByTitle(resp.criticalPath[1])) = {}

\* ------------------------------------- task sets with a dangling dependency
\* The id no task of the set carries.
MissingId == GraphSize
PresentIds == GraphIds \ {MissingId}

\* the task sets handed over: the tasks PresentIds, any acyclic set of
\* dependencies between them, and any of them naming MissingId as a dependency
\* too (useTasks deleteTask drops a task from the list and leaves its id in the
\* dependencies of the others)
InitDangling ==
  /\ tasks = [i \in PresentIds |-> [title |-> TaskTitles[i], status |-> "TODO", tags |-> <<>>]]
  /\ TaskDependencies \in SUBSET {e \in PresentIds \X GraphIds : e[1] # e[2]}
  /\ \A t \in GraphIds : t \notin ReachableIn({t}, GraphSize)
  /\ nextId = MissingId
  /\ req = NoReq
  /\ resp = NoResp
  /\ calls = [h \in Handlers |-> Idle]

\* the graph view built from the tasks of the set, newest first
ShowTasks == \E ord \in GraphOrders : DependencyGraph(findMany, ord)
\* the analysis computed on the set
AnalyzeTasks == \E now \in Nows, ord \in GraphOrders : GET_Analysis(now, ord)

NextDangling ==
  \/ ShowTasks
  \/ AnalyzeTasks
  \/ Deliver

SpecDangling == InitDangling /\ [][NextDangling]_vars

\* the dependencies of t that name a task of the set
PresentDeps(t) == DirectDeps(t) \cap DOMAIN tasks

RECURSIVE LevelAmongPresent(_, _)
\* the level of t when only dependencies naming a task are counted
LevelAmongPresent(t, n) ==
  IF n = 0 \/ PresentDeps(t) = {} THEN 0
  ELSE 1 + Max({LevelAmongPresent(d, n - 1) : d \in PresentDeps(t)})

\* C25 (dangling references are skipped): a dependency id that names no task of
\* the set leaves every result as it would be without it: each task's level is
\* its level among the tasks present, the critical path names tasks of the set
\* only, and each task's earliest start is the analysis time if none of its
\* dependencies is present and the latest reference date of those present
\* otherwise.
C25_DanglingSkipped ==
  /\ req.op = GraphOp =>
       \A t \in DOMAIN tasks : resp.levels[t] = LevelAmongPresent(t, GraphSize)
  /\ req.op = AnalysisOp =>
       /\ \A i \in 1..Len(resp.criticalPath) :
            \E t \in DOMAIN tasks : tasks[t].title = resp.criticalPath[i]
       /\ \A t \in DOMAIN tasks :
            resp.earliestStartDates[tasks[t].title] =
              IF PresentDeps(t) = {} THEN req.now
              ELSE Max({ReferenceDate(d) : d \in PresentDeps(t)})

\* ------------------------------------------- a store that holds cycles already
\* the stores looked at: MaxTasks tasks and any set of dependency rows between
\* them, rows from a task to itself and rows closing a cycle included
InitCorrupt ==
  /\ tasks = [i \in Ids |-> [title |-> TaskTitles[i], status |-> "TODO", tags |-> <<>>]]
  /\ TaskDependencies \in SUBSET (Ids \X Ids)
  /\ nextId = MaxTasks + 1
  /\ req = NoReq
  /\ resp = NoResp
  /\ calls = [h \in Handlers |-> Idle]

\* the graph view of the stored tasks, opened while no update is in progress
ShowCorrupt ==
  /\ calls["first"].pc = "idle"
  /\ \E ord \in RowOrders : DependencyGraph(findMany, ord)

\* the task dialog saving one dependency through PUT /api/tasks/[id]
PutDependency ==
  /\ calls["first"].pc = "idle"
  /\ \E id \in Ids, d \in Ids, ord \in RowOrders :
       PUT_Task(id, Undefined, Undefined, SomeDeps(<<d>>), ord)

\* the response of the graph view or of PUT is read
DeliverCorrupt ==
  /\ calls["first"].pc = "idle"
  /\ Deliver

\* POST /api/tasks/[id]/dependencies arrives while nothing else is in progress
ReceiveCorrupt ==
  /\ req = NoReq
  /\ \E id \in Ids, dependencies \in DepLists : Receive("first", id, dependencies)

\* one request at a time; POST /api/tasks/[id]/dependencies one awaited call at
\* a time
NextCorrupt ==
  \/ ShowCorrupt
  \/ PutDependency
  \/ DeliverCorrupt
  \/ ReceiveCorrupt
  \/ FindTask("first")
  \/ \E ord \in RowOrders : FindDependency("first", ord)
  \/ Update("first")
  \/ Return("first")

SpecCorrupt == InitCorrupt /\ [][NextCorrupt]_vars

\* C26 (level assignment on malformed input): for every task set, cycles and
\* self-loops included, every task gets a level between 0 and the number of
\* tasks, and a task whose only dependency is itself, reached again while its
\* level is being computed and answered 0 there, gets level 1.
C26_LevelsOnMalformedInput ==
  req.op = GraphOp =>
    \A t \in DOMAIN tasks :
      /\ t \in DOMAIN resp.levels
      /\ resp.levels[t] \in 0..Cardinality(DOMAIN tasks)
      /\ DirectDeps(t) = {t} => resp.levels[t] = 1
      /\ DirectDeps(t) = {} => resp.levels[t] = 0

\* C26 witness: the graph of a store in which one task depends on itself only
\* and two others depend on each other.
C26_Witness ==
  /\ req.op = GraphOp
  /\ \E t, a, b \in DOMAIN tasks :
       /\ DirectDeps(t) = {t}
       /\ a # b /\ a # t /\ b # t
       /\ DirectDeps(a) = {b} /\ DirectDeps(b) = {a}
       /\ resp.levels[t] = 1
       /\ resp.levels[a] + resp.levels[b] = 3

CreateOp == "POST /api/tasks"

\* C27 (creation cannot close a cycle): whatever dependency ids POST /api/tasks
\* is given, a store that was acyclic before the request is acyclic after it,
\* and no existing task depends on the task created.
C27_CreationKeepsAcyclic ==
  [][(Handled /\ req'.op = CreateOp /\ Acyclic) =>
       /\ Acyclic'
       /\ \A e \in TaskDependencies' : e[2] # nextId]_vars

\* C27 witness: a task created with two dependencies, one of which depends on
\* the other.
C27_Witness ==
  /\ req.op = CreateOp
  /\ resp.status = 201
  /\ \E d, e \in DirectDeps(nextId - 1) : d # e /\ e \in DirectDeps(d)
  /\ Acyclic

\* C28 (dependency removal changes only the named edges): a
\* DELETE /api/tasks/[id]/dependencies with list D on an existing task t is
\* answered 200 and removes exactly the rows from t to the ids of D that the
\* store holds, leaves every other row and every task as it was, and leaves an
\* acyclic store acyclic.
C28_RemovalChangesNamedEdgesOnly ==
  [][(/\ Handled
      /\ req'.op = DeleteDepsOp
      /\ req'.dependencies # NoDeps
      /\ findUnique(req'.id))
     => /\ resp'.status = 200
        /\ TaskDependencies' = TaskDependencies \ ProposedRows(req')
        /\ tasks' = tasks
        /\ Acyclic => Acyclic']_vars

\* C28 witness: a removal naming two ids has been answered 200, and the task
\* still has a dependency the list did not name, as has another task.
C28_Witness ==
  /\ req.op = DeleteDepsOp
  /\ resp.status = 200
  /\ Cardinality(ProposedIds(req)) = 2
  /\ DirectDeps(req.id) # {}
  /\ \E t \in DOMAIN tasks : t # req.id /\ DirectDeps(t) # {}

\* Prisma answers every query and the event loop resumes the handler awaiting it
SpecCorruptFair ==
  /\ SpecCorrupt
  /\ WF_vars(FindTask("first"))
  /\ WF_vars(\E ord \in RowOrders : FindDependency("first", ord))
  /\ WF_vars(Update("first"))

\* the invocation of POST /api/tasks/[id]/dependencies looked at
post == calls["first"]

\* C29 (traversals end on a corrupted store): on any stored graph, cycles and
\* self-loops included, the critical path search returns a path that is not
\* empty and names no task twice, PUT /api/tasks/[id] with a dependency is
\* answered, the cycle check of POST /api/tasks/[id]/dependencies reads a task
\* only if it has not visited it before in the same check, and every such
\* request is answered in the end.
C29_TraversalsTerminate ==
  /\ [](req.op = GraphOp =>
          /\ resp.criticalPath # <<>>
          /\ Len(resp.criticalPath) <= Cardinality(DOMAIN tasks)
          /\ \A i, j \in 1..Len(resp.criticalPath) :
               i # j => resp.criticalPath[i] # resp.criticalPath[j])
  /\ [](req.op = PutOp => resp.status \in {200, 400})
  /\ [][(post' # post /\ post'.pc = "findDependency") =>
          /\ post'.cur \notin post.visited
          /\ post'.visited = post.visited \cup {post'.cur}]_vars
  /\ (post.pc = "findTask" ~> post.pc = "done")

\* C29 witness: a cycle check has been answered after visiting two tasks on a
\* stored cycle that does not pass through the task of the request.
C29_Witness ==
  /\ post.pc = "done"
  /\ post.status = 400
  /\ Cardinality(post.visited) = 2
  /\ \A d \in Ids : <<d, post.taskId>> \notin TaskDependencies
  /\ \A d \in post.visited : d \in Ancestors(d) /\ <<d, d>> \notin TaskDependencies

\* ------------------------------------------------ tasks sharing a title
\* the titles clients give: nothing keeps two tasks from having the same one
SharedTitles == {TaskTitles[1], TaskTitles[2]}

CreateTitled == \E title \in SharedTitles, dependencies \in DepInputs :
  POST_Tasks(title, Undefined, dependencies)

NextTitles ==
  \/ CreateTitled
  \/ Analyze
  \/ Deliver

SpecTitles == Init /\ [][NextTitles]_vars

\* C30 (an earliest start for every task): the earliestStartDates of the
\* analysis has as many entries as there are tasks, and the entry under a task's
\* title is that task's own earliest start: the analysis time if it has no
\* dependencies, else the latest reference date of its dependencies.
C30_EarliestStartPerTask ==
  req.op = AnalysisOp =>
    /\ Cardinality(DOMAIN resp.earliestStartDates) = Cardinality(DOMAIN tasks)
    /\ \A t \in DOMAIN tasks :
         resp.earliestStartDates[tasks[t].title] =
           IF DirectDeps(t) = {} THEN req.now
           ELSE Max({ReferenceDate(d) : d \in DirectDeps(t)})

====
